---------------------------- MODULE Spec2Model ----------------------------
(***************************************************************************)
(* The world graph and movement engine of faerie: GameMap (src/src/lib.rs) *)
(* with its Room, Path, Direction and User types, and Room::add_path with  *)
(* its duplicate check from src/src/room.rs.                               *)
(*                                                                         *)
(* Strings that the code builds with format! are modelled as tuples of     *)
(* their pieces.  A panic (assert!, expect) ends the process: the state at *)
(* the panic keeps every mutation made before it, result.status is         *)
(* "panic", and no operation runs afterwards.                              *)
(***************************************************************************)
EXTENDS Integers, Sequences, FiniteSets, TLC

VARIABLES
    rooms,      \* GameMap.rooms.rooms : HashMap<RoomName, Room>
    users,      \* GameMap.users.users : HashMap<UserName, User>
    result,     \* the outcome of the last operation
    calls,      \* number of calls made so far
    pipeline    \* the command in flight: its stage and what it has gathered

vars == <<rooms, users, result, calls, pipeline>>

---------------------------------------------------------------------------
(* Bounds of the model.                                                    *)

MaxCalls == 6
MaxGraphCalls == 3
MaxCastCalls == 3
MaxPureCalls == 4
MaxRouterCalls == 2
MaxPainCalls == 23

(* Inputs the operations of Spec are called with.                          *)

RoomArgs == {"r1", "r2"}
DescArgs == {"d1"}
UserArgs == {"u1", "u2"}
UserTypeArgs == {"Civilian", "Viking"}
ExitNames == {"north"}
MoveArgs == {"", "north", "s", "door"}

UserTypes == {"Civilian", "Viking", "ElfLord"}
CustomNames == {"", "in", "out"}

(* Inputs of SpecCast: names and descriptions, the empty one among them.   *)
RoomNameArgs == {"", "r1", "r2"}
DescriptionArgs == {"", "d1"}
UserNameArgs == {"", "u1", "u2"}

(* Inputs of SpecRouter: the lines read from the terminal.                 *)
RouterInputs == {"", "n", "south", "up", "list_users"}

(* Inputs of SpecPure: the aliases, the full words and other strings.      *)
AliasArgs ==
    {"n", "s", "e", "w", "ne", "se", "nw", "sw",
     "north", "south", "east", "west",
     "northeast", "southeast", "northwest", "southwest",
     "", "N", "nn", "north ", "up", "door"}

---------------------------------------------------------------------------
(* Direction                                                               *)

Dir(tag, start, end) == [tag |-> tag, start |-> start, end |-> end]

North == Dir("North", "", "")
East == Dir("East", "", "")
South == Dir("South", "", "")
West == Dir("West", "", "")
NorthEast == Dir("NorthEast", "", "")
SouthEast == Dir("SouthEast", "", "")
SouthWest == Dir("SouthWest", "", "")
NorthWest == Dir("NorthWest", "", "")
CustomOneWay(start) == Dir("CustomOneWay", start, "")
Custom(start, end) == Dir("Custom", start, end)

Compass == {North, East, South, West, NorthEast, SouthEast, SouthWest, NorthWest}

Direction ==
    Compass \cup {CustomOneWay(a) : a \in CustomNames}
            \cup {Custom(a, b) : a \in CustomNames, b \in CustomNames}

(* The directions the world of Spec is built with.                         *)
PlayDirections == {North, CustomOneWay("door")}

get_path_name(dir) ==
    CASE dir.tag = "North" -> "north"
      [] dir.tag = "South" -> "south"
      [] dir.tag = "East" -> "east"
      [] dir.tag = "West" -> "west"
      [] dir.tag = "NorthEast" -> "northeast"
      [] dir.tag = "SouthEast" -> "southeast"
      [] dir.tag = "SouthWest" -> "southwest"
      [] dir.tag = "NorthWest" -> "northwest"
      [] dir.tag = "CustomOneWay" -> dir.start
      [] dir.tag = "Custom" -> dir.start

(* get_reverse with the diagonals mirrored east to west only.              *)
get_reverse_mirrored(dir) ==
    CASE dir.tag = "North" -> <<South>>
      [] dir.tag = "South" -> <<North>>
      [] dir.tag = "East" -> <<West>>
      [] dir.tag = "West" -> <<East>>
      [] dir.tag = "NorthEast" -> <<NorthWest>>
      [] dir.tag = "SouthEast" -> <<SouthWest>>
      [] dir.tag = "SouthWest" -> <<SouthEast>>
      [] dir.tag = "NorthWest" -> <<NorthEast>>
      [] dir.tag = "CustomOneWay" -> << >>
      [] dir.tag = "Custom" -> <<Custom(dir.end, dir.start)>>

(* Option<Direction>: << >> is None, <<d>> is Some(d).                     *)
get_reverse(dir) ==
    CASE dir.tag = "North" -> <<South>>
      [] dir.tag = "South" -> <<North>>
      [] dir.tag = "East" -> <<West>>
      [] dir.tag = "West" -> <<East>>
      [] dir.tag = "NorthEast" -> <<SouthWest>>
      [] dir.tag = "SouthEast" -> <<NorthWest>>
      [] dir.tag = "SouthWest" -> <<NorthEast>>
      [] dir.tag = "NorthWest" -> <<SouthEast>>
      [] dir.tag = "CustomOneWay" -> << >>
      [] dir.tag = "Custom" -> <<Custom(dir.end, dir.start)>>

(* match_basic_aliases expanding one letter at a time.                     *)
match_basic_aliases_stepwise(s) ==
    CASE s = "n" -> "north"
      [] s = "s" -> "south"
      [] s = "w" -> "west"
      [] s = "e" -> "east"
      [] s = "ne" -> "northeast"
      [] s = "se" -> "southeast"
      [] s = "nw" -> "northwest"
      [] s = "sw" -> "s"
      [] OTHER -> s

match_basic_aliases(s) ==
    CASE s = "n" -> "north"
      [] s = "s" -> "south"
      [] s = "w" -> "west"
      [] s = "e" -> "east"
      [] s = "ne" -> "northeast"
      [] s = "se" -> "southeast"
      [] s = "nw" -> "northwest"
      [] s = "sw" -> "southwest"
      [] OTHER -> s


---------------------------------------------------------------------------
(* HashMap and the outcome of an operation                                 *)

EmptyMap == [k \in {} |-> k]

(* HashMap::insert: the value under an existing key is replaced.           *)
Insert(map, k, v) == [x \in DOMAIN map \cup {k} |-> IF x = k THEN v ELSE map[x]]

NoDir == Dir("None", "", "")

Args(user, source, target, path, dir, kind) ==
    [user |-> user, source |-> source, target |-> target, path |-> path,
     dir |-> dir, kind |-> kind]

NoArgs == Args("", "", "", "", NoDir, "")

Outcome(op, status, messages, args) ==
    [op |-> op, status |-> status, messages |-> messages, args |-> args]

Panic(op, message, args) == Outcome(op, "panic", <<message>>, args)

Running == result.status # "panic"

---------------------------------------------------------------------------
(* User                                                                    *)

BasicAttributes_default(user_type) ==
    CASE user_type = "Civilian" -> [hp |-> 20, mp |-> 7]
      [] user_type = "Viking" -> [hp |-> 220, mp |-> 9]
      [] user_type = "ElfLord" -> [hp |-> 80, mp |-> 28]

SpecialAttributes_default(user_type) ==
    CASE user_type = "Civilian" -> [kind |-> "Civilian", value |-> 20]
      [] user_type = "Viking" -> [kind |-> "Viking", value |-> 2]
      [] user_type = "ElfLord" -> [kind |-> "ElfLord", value |-> 3]

User_new(name, starting_room_name, user_type) ==
    [name |-> name,
     room_name |-> starting_room_name,
     basic_attributes |-> BasicAttributes_default(user_type),
     special_attributes |-> SpecialAttributes_default(user_type)]

---------------------------------------------------------------------------
(* Path and its exit condition                                             *)

(* exit_cond: "None" is no closure, "Painful" the closure of new_painful;  *)
(* the others are closures a caller hands in with PathType::Custom.        *)
CustomConds == {"Deny", "HurtDeny", "Quiet"}
PathTypes == {"Painful"} \cup CustomConds

PainMessage == <<"You passed through, but it hurt you.">>
DenyMessage == <<"The way is shut.">>

(* Hurt taking two hit points.                                             *)
Hurt_twice(user) ==
    [user EXCEPT !.basic_attributes.hp = @ - 2]

(* The range of an i32.                                                    *)
I32Max == 2147483647
I32Min == -I32Max - 1

(* user.basic_attributes.hp -= 1 on an i32.  At I32Min the subtraction     *)
(* overflows: a build without overflow checks wraps around, as here; a     *)
(* build with them panics (attempt_move_overflow).                         *)
Hurt(user) ==
    [user EXCEPT !.basic_attributes.hp = IF @ = I32Min THEN I32Max ELSE @ - 1]

(* The call exit_lambda(user): the user as the closure leaves it, and its  *)
(* Result<Option<String>, String>.                                         *)
exit_lambda(exit_cond, user) ==
    CASE exit_cond = "Painful" ->
            [user |-> Hurt(user), ok |-> TRUE, message |-> <<PainMessage>>]
      [] exit_cond = "Quiet" ->
            [user |-> user, ok |-> TRUE, message |-> << >>]
      [] exit_cond = "Deny" ->
            [user |-> user, ok |-> FALSE, message |-> <<DenyMessage>>]
      [] exit_cond = "HurtDeny" ->
            [user |-> Hurt(user), ok |-> FALSE, message |-> <<DenyMessage>>]

new_painful(target_room_name, path_name) ==
    [target_room_name |-> target_room_name, path_name |-> path_name,
     exit_cond |-> "Painful"]

(* Path::new with its two strings taken in the other order.                *)
Path_new_swapped(target_room_name, path_name, path_type) ==
    [target_room_name |-> path_name, path_name |-> target_room_name,
     exit_cond |-> IF path_type = "Normal" THEN "None" ELSE path_type]

(* Path::new once its assert has passed.                                   *)
Path_new(target_room_name, path_name, path_type) ==
    CASE path_type = "Normal" ->
            [target_room_name |-> target_room_name, path_name |-> path_name,
             exit_cond |-> "None"]
      [] path_type = "Painful" -> new_painful(target_room_name, path_name)
      [] OTHER ->
            [target_room_name |-> target_room_name, path_name |-> path_name,
             exit_cond |-> path_type]

EmptyPathName == <<"Empty path names are not allowed!">>

---------------------------------------------------------------------------
(* Room                                                                    *)

Room_new(name, description) ==
    [name |-> name, description |-> description,
     exits |-> EmptyMap, users |-> {}]

(* Room::add_exit (lib.rs) once Path::new has passed: a plain insert.      *)
add_exit(room, target_room_name, path_name) ==
    [room EXCEPT !.exits =
        Insert(@, path_name, Path_new(target_room_name, path_name, "Normal"))]

add_exit_special(room, target_room_name, path_name, path_type) ==
    [room EXCEPT !.exits =
        Insert(@, path_name, Path_new(target_room_name, path_name, path_type))]

(* Room::check_duplicate_path (room.rs): TRUE when the assert passes.      *)
check_duplicate_path(room, path_name) == path_name \notin DOMAIN room.exits

add_user(room, name) == [room EXCEPT !.users = @ \cup {name}]

---------------------------------------------------------------------------
(* GameMap: construction                                                   *)

Called(op) == calls + 1

(* create_empty_room: Room::new asserts, then HashMap::insert.             *)
create_empty_room(name, desc) ==
    LET args == Args("", name, "", "", NoDir, desc) IN
    /\ calls' = Called("create_room")
    /\ users' = users
    /\ IF name = ""
       THEN /\ rooms' = rooms
            /\ result' = Panic("create_room", <<"Empty room names are not allowed!">>, args)
       ELSE IF desc = ""
       THEN /\ rooms' = rooms
            /\ result' = Panic("create_room", <<"Empty room descriptions are not allowed!">>, args)
       ELSE /\ rooms' = Insert(rooms, name, Room_new(name, desc))
            /\ result' = Outcome("create_room", "ok", << >>, args)

(* add_path_impl with a Path::new that takes any name.                     *)
add_path_impl_any_name(rs, source_room_name, target_room_name, direction) ==
    LET path_name == get_path_name(direction) IN
    IF target_room_name \notin DOMAIN rs
    THEN [rooms |-> rs, panic |-> <<<<"No room named ", target_room_name, " exists!">>>>]
    ELSE IF source_room_name \notin DOMAIN rs
    THEN [rooms |-> rs,
          panic |-> <<<<"Failed to find room named ", source_room_name, " for mutation!">>>>]
    ELSE [rooms |-> [rs EXCEPT ![source_room_name] =
                        add_exit(@, target_room_name, path_name)],
          panic |-> << >>]

(* add_path_impl without check_room_exists on the target.                  *)
add_path_impl_unchecked_target(rs, source_room_name, target_room_name, direction) ==
    LET path_name == get_path_name(direction) IN
    IF source_room_name \notin DOMAIN rs
    THEN [rooms |-> rs,
          panic |-> <<<<"Failed to find room named ", source_room_name, " for mutation!">>>>]
    ELSE IF path_name = ""
    THEN [rooms |-> rs, panic |-> <<EmptyPathName>>]
    ELSE [rooms |-> [rs EXCEPT ![source_room_name] =
                        add_exit(@, target_room_name, path_name)],
          panic |-> << >>]

(* add_path_impl on the room table rs: the table it leaves, and the panic  *)
(* it raised (<< >>: none).                                                *)
add_path_impl(rs, source_room_name, target_room_name, direction) ==
    LET path_name == get_path_name(direction) IN
    IF target_room_name \notin DOMAIN rs
    THEN [rooms |-> rs, panic |-> <<<<"No room named ", target_room_name, " exists!">>>>]
    ELSE IF source_room_name \notin DOMAIN rs
    THEN [rooms |-> rs,
          panic |-> <<<<"Failed to find room named ", source_room_name, " for mutation!">>>>]
    ELSE IF path_name = ""
    THEN [rooms |-> rs, panic |-> <<EmptyPathName>>]
    ELSE [rooms |-> [rs EXCEPT ![source_room_name] =
                        add_exit(@, target_room_name, path_name)],
          panic |-> << >>]

(* add_path: the forward edge, then the reverse edge when the direction    *)
(* has a reverse.                                                          *)
add_path(source_room_name, target_room_name, direction) ==
    LET args == Args("", source_room_name, target_room_name,
                     get_path_name(direction), direction, "")
        fwd == add_path_impl(rooms, source_room_name, target_room_name, direction)
        rev == get_reverse(direction)
        bwd == add_path_impl(fwd.rooms, target_room_name, source_room_name, rev[1])
    IN
    /\ calls' = Called("add_path")
    /\ users' = users
    /\ IF fwd.panic # << >>
       THEN /\ rooms' = fwd.rooms
            /\ result' = Panic("add_path", fwd.panic[1], args)
       ELSE IF rev = << >>
       THEN /\ rooms' = fwd.rooms
            /\ result' = Outcome("add_path", "ok", << >>, args)
       ELSE IF bwd.panic # << >>
       THEN /\ rooms' = bwd.rooms
            /\ result' = Panic("add_path", bwd.panic[1], args)
       ELSE /\ rooms' = bwd.rooms
            /\ result' = Outcome("add_path", "ok", << >>, args)

(* Room::add_exit_special (lib.rs), Room::add_path_special (room.rs), on   *)
(* a room of the map: Path::new asserts, then a plain insert.  The method  *)
(* does not look at the target; its callers name rooms of the map.         *)
Room_add_exit_special(source_room_name, target_room_name, path_name, path_type) ==
    LET args == Args("", source_room_name, target_room_name, path_name, NoDir, path_type) IN
    /\ calls' = Called("add_exit")
    /\ users' = users
    /\ IF path_name = ""
       THEN /\ rooms' = rooms
            /\ result' = Panic("add_exit_special", EmptyPathName, args)
       ELSE /\ rooms' = [rooms EXCEPT ![source_room_name] =
                            add_exit_special(@, target_room_name, path_name, path_type)]
            /\ result' = Outcome("add_exit_special", "ok", << >>, args)

(* Room::add_path (room.rs) on a room of the map: check_duplicate_path,    *)
(* Path::new, insert.                                                      *)
Room_add_path(source_room_name, target_room_name, path_name) ==
    LET args == Args("", source_room_name, target_room_name, path_name, NoDir, "Normal") IN
    /\ calls' = Called("add_exit")
    /\ users' = users
    /\ IF ~check_duplicate_path(rooms[source_room_name], path_name)
       THEN /\ rooms' = rooms
            /\ result' = Panic("room_add_path",
                    <<"Path '", path_name, "' from ", rooms[source_room_name].name,
                      " already exists!">>, args)
       ELSE IF path_name = ""
       THEN /\ rooms' = rooms
            /\ result' = Panic("room_add_path", EmptyPathName, args)
       ELSE /\ rooms' = [rooms EXCEPT ![source_room_name] =
                            add_exit(@, target_room_name, path_name)]
            /\ result' = Outcome("room_add_path", "ok", << >>, args)

(* create_user_in_room with a User::new that takes any name.               *)
create_user_in_room_any_name(user_name, room_name, user_type) ==
    LET args == Args(user_name, room_name, "", "", NoDir, user_type)
        user == User_new(user_name, room_name, user_type)
    IN
    /\ calls' = Called("create_user")
    /\ IF room_name \notin DOMAIN rooms
       THEN /\ users' = Insert(users, user_name, user)
            /\ rooms' = rooms
            /\ result' = Panic("create_user",
                    <<"Failed to find room named ", room_name, " for mutation!">>, args)
       ELSE /\ users' = Insert(users, user_name, user)
            /\ rooms' = [rooms EXCEPT ![room_name] = add_user(@, user_name)]
            /\ result' = Outcome("create_user", "ok", << >>, args)

(* create_user_in_room: User::new asserts, the user is inserted, and only  *)
(* then is the room looked up.                                             *)
create_user_in_room(user_name, room_name, user_type) ==
    LET args == Args(user_name, room_name, "", "", NoDir, user_type)
        user == User_new(user_name, room_name, user_type)
    IN
    /\ calls' = Called("create_user")
    /\ IF user_name = ""
       THEN /\ users' = users
            /\ rooms' = rooms
            /\ result' = Panic("create_user", <<"Empty user names are not allowed!">>, args)
       ELSE IF room_name \notin DOMAIN rooms
       THEN /\ users' = Insert(users, user_name, user)
            /\ rooms' = rooms
            /\ result' = Panic("create_user",
                    <<"Failed to find room named ", room_name, " for mutation!">>, args)
       ELSE /\ users' = Insert(users, user_name, user)
            /\ rooms' = [rooms EXCEPT ![room_name] = add_user(@, user_name)]
            /\ result' = Outcome("create_user", "ok", << >>, args)

---------------------------------------------------------------------------
(* GameMap: movement                                                       *)

NoDirection(path_name, room_name) ==
    <<"What? There's no direction ", path_name, " from ", room_name, ".">>

(* lookup_exit looking the name up in every room of the map.               *)
lookup_exit_anywhere(room, path_name) ==
    LET have == {r \in DOMAIN rooms : path_name \in DOMAIN rooms[r].exits} IN
    IF path_name \in DOMAIN room.exits THEN <<room.exits[path_name]>>
    ELSE IF have # {} THEN <<rooms[CHOOSE r \in have : TRUE].exits[path_name]>>
    ELSE << >>

(* room.exits.get_mut(name): << >> is None, <<path>> is Some(path).        *)
lookup_exit(room, path_name) ==
    IF path_name \in DOMAIN room.exits THEN <<room.exits[path_name]>> ELSE << >>

(* run_exit_cond calling the closure a second time.                        *)
run_exit_cond_twice(path, user) ==
    IF path.exit_cond = "None"
    THEN [user |-> user, ok |-> TRUE, message |-> << >>]
    ELSE exit_lambda(path.exit_cond, exit_lambda(path.exit_cond, user).user)

(* run_exit_cond taking the closure's Err for an Ok.                       *)
run_exit_cond_never_denies(path, user) ==
    IF path.exit_cond = "None"
    THEN [user |-> user, ok |-> TRUE, message |-> << >>]
    ELSE [exit_lambda(path.exit_cond, user) EXCEPT !.ok = TRUE]

(* run_exit_cond running the closure on a copy that a denial throws away.  *)
run_exit_cond_rolls_back(path, user) ==
    LET r == exit_lambda(path.exit_cond, user) IN
    IF path.exit_cond = "None"
    THEN [user |-> user, ok |-> TRUE, message |-> << >>]
    ELSE IF r.ok THEN r ELSE [r EXCEPT !.user = user]

(* The exit condition of a found path, run on the user: the user as the    *)
(* closure leaves it, whether passage is allowed, and the message.         *)
run_exit_cond(path, user) ==
    IF path.exit_cond = "None"
    THEN [user |-> user, ok |-> TRUE, message |-> << >>]
    ELSE exit_lambda(path.exit_cond, user)

(* commit_rooms clearing the users of the source room.                     *)
commit_rooms_clears_source(rs, user_name, room_name, target_room_name) ==
    LET inserted == [rs EXCEPT ![target_room_name].users = @ \cup {user_name}]
    IN  [inserted EXCEPT ![room_name].users = {}]

(* commit_rooms leaving the user among the users of the source room.       *)
commit_rooms_keeps_source(rs, user_name, room_name, target_room_name) ==
    [rs EXCEPT ![target_room_name].users = @ \cup {user_name}]

(* The commit on the room table: insert into the target room, then take    *)
(* from the source room.                                                   *)
commit_rooms(rs, user_name, room_name, target_room_name) ==
    LET inserted == [rs EXCEPT ![target_room_name].users = @ \cup {user_name}]
    IN  [inserted EXCEPT ![room_name].users = @ \ {user_name}]

(* commit_user storing the user's own name as its room.                    *)
commit_user_own_name(user, target_room_name) == [user EXCEPT !.room_name = user.name]

commit_user(user, target_room_name) == [user EXCEPT !.room_name = target_room_name]

(* attempt_move_impl looking the empty name up like any other.             *)
attempt_move_impl_no_empty_check(user_name, input) ==
    LET possible_path_name == match_basic_aliases(input)
        room_name == users[user_name].room_name
        found == lookup_exit(rooms[room_name], possible_path_name)
        path == found[1]
        cond == run_exit_cond(path, users[user_name])
        target_room_name == path.target_room_name
        args0 == Args(user_name, "", "", possible_path_name, NoDir, "")
        args1 == Args(user_name, room_name, "", possible_path_name, NoDir, "")
        args2 == Args(user_name, room_name, target_room_name, possible_path_name,
                      NoDir, path.exit_cond)
    IN
    /\ calls' = Called("move")
    /\ IF user_name \notin DOMAIN users
       THEN /\ UNCHANGED <<rooms, users>>
            /\ result' = Panic("move", <<"Failed to find user named ", user_name, "!">>, args0)
       ELSE IF room_name \notin DOMAIN rooms
       THEN /\ UNCHANGED <<rooms, users>>
            /\ result' = Panic("move", <<"No room named ", room_name, " exists!">>, args1)
       ELSE IF found = << >>
       THEN /\ UNCHANGED <<rooms, users>>
            /\ result' = Outcome("move", "err",
                                 <<NoDirection(possible_path_name, room_name)>>, args1)
       ELSE IF ~cond.ok
       THEN /\ rooms' = rooms
            /\ users' = [users EXCEPT ![user_name] = cond.user]
            /\ result' = Outcome("move", "err", cond.message, args2)
       ELSE IF target_room_name \notin DOMAIN rooms
       THEN /\ rooms' = rooms
            /\ users' = [users EXCEPT ![user_name] = cond.user]
            /\ result' = Panic("move",
                    <<"Failed to find room named ", target_room_name, " for mutation!">>,
                    args2)
       ELSE /\ rooms' = commit_rooms(rooms, user_name, room_name, target_room_name)
            /\ users' = [users EXCEPT ![user_name] = commit_user(cond.user, target_room_name)]
            /\ result' = Outcome("move", "ok", cond.message, args2)

attempt_move_impl(user_name, input) ==
    LET possible_path_name == match_basic_aliases(input)
        room_name == users[user_name].room_name
        found == lookup_exit(rooms[room_name], possible_path_name)
        path == found[1]
        cond == run_exit_cond(path, users[user_name])
        target_room_name == path.target_room_name
        args0 == Args(user_name, "", "", possible_path_name, NoDir, "")
        args1 == Args(user_name, room_name, "", possible_path_name, NoDir, "")
        args2 == Args(user_name, room_name, target_room_name, possible_path_name,
                      NoDir, path.exit_cond)
    IN
    /\ calls' = Called("move")
    /\ IF possible_path_name = ""
       THEN /\ UNCHANGED <<rooms, users>>
            /\ result' = Outcome("move", "err", <<<<"">>>>, args0)
       ELSE IF user_name \notin DOMAIN users
       THEN /\ UNCHANGED <<rooms, users>>
            /\ result' = Panic("move", <<"Failed to find user named ", user_name, "!">>, args0)
       ELSE IF room_name \notin DOMAIN rooms
       THEN /\ UNCHANGED <<rooms, users>>
            /\ result' = Panic("move", <<"No room named ", room_name, " exists!">>, args1)
       ELSE IF found = << >>
       THEN /\ UNCHANGED <<rooms, users>>
            /\ result' = Outcome("move", "err",
                                 <<NoDirection(possible_path_name, room_name)>>, args1)
       ELSE IF ~cond.ok
       THEN /\ rooms' = rooms
            /\ users' = [users EXCEPT ![user_name] = cond.user]
            /\ result' = Outcome("move", "err", cond.message, args2)
       ELSE IF target_room_name \notin DOMAIN rooms
       THEN /\ rooms' = rooms
            /\ users' = [users EXCEPT ![user_name] = cond.user]
            /\ result' = Panic("move",
                    <<"Failed to find room named ", target_room_name, " for mutation!">>,
                    args2)
       ELSE /\ rooms' = commit_rooms(rooms, user_name, room_name, target_room_name)
            /\ users' = [users EXCEPT ![user_name] = commit_user(cond.user, target_room_name)]
            /\ result' = Outcome("move", "ok", cond.message, args2)

(* attempt_move_impl in a build with overflow checks, when the exit        *)
(* closure subtracts from an hp of I32Min: the subtraction panics inside   *)
(* the closure, before anything is written.                                *)
attempt_move_overflow(user_name, input) ==
    LET possible_path_name == match_basic_aliases(input)
        room_name == users[user_name].room_name
        found == lookup_exit(rooms[room_name], possible_path_name)
        path == found[1]
    IN
    /\ possible_path_name # ""
    /\ user_name \in DOMAIN users
    /\ room_name \in DOMAIN rooms
    /\ found # << >>
    /\ path.exit_cond \in {"Painful", "HurtDeny"}
    /\ users[user_name].basic_attributes.hp = I32Min
    /\ calls' = Called("move")
    /\ UNCHANGED <<rooms, users>>
    /\ result' = Panic("move", <<"attempt to subtract with overflow">>,
                       Args(user_name, room_name, path.target_room_name,
                            possible_path_name, NoDir, path.exit_cond))

---------------------------------------------------------------------------
(* The world and the calls made on it                                      *)

(* No command in flight.                                                   *)
NoOutcome == [kind |-> "none", messages |-> << >>]

Idle ==
    [pc |-> "Idle", user |-> "", input |-> "", path_name |-> "",
     messages |-> << >>, outcome |-> NoOutcome]

Init ==
    /\ rooms = EmptyMap
    /\ users = EmptyMap
    /\ result = Outcome("new", "ok", << >>, NoArgs)
    /\ calls = 0
    /\ pipeline = Idle

CreateRoom ==
    /\ Running
    /\ calls < MaxCalls
    /\ \E name \in RoomArgs, desc \in DescArgs : create_empty_room(name, desc)
    /\ UNCHANGED pipeline

AddPath ==
    /\ Running
    /\ calls < MaxCalls
    /\ \E s \in RoomArgs, t \in RoomArgs, d \in PlayDirections : add_path(s, t, d)
    /\ UNCHANGED pipeline

AddExitSpecial ==
    /\ Running
    /\ calls < MaxCalls
    /\ \E s \in DOMAIN rooms, t \in DOMAIN rooms, n \in ExitNames, pt \in PathTypes :
          Room_add_exit_special(s, t, n, pt)
    /\ UNCHANGED pipeline

RoomAddPath ==
    /\ Running
    /\ calls < MaxCalls
    /\ \E s \in DOMAIN rooms, t \in DOMAIN rooms, n \in ExitNames :
          Room_add_path(s, t, n)
    /\ UNCHANGED pipeline

CreateUser ==
    /\ Running
    /\ calls < MaxCalls
    /\ \E u \in UserArgs, r \in RoomArgs, ut \in UserTypeArgs : create_user_in_room(u, r, ut)
    /\ UNCHANGED pipeline

AttemptMove ==
    /\ Running
    /\ calls < MaxCalls
    /\ \E u \in UserArgs, input \in MoveArgs : attempt_move_impl(u, input)
    /\ UNCHANGED pipeline

Next ==
    \/ CreateRoom
    \/ AddPath
    \/ AddExitSpecial
    \/ RoomAddPath
    \/ CreateUser
    \/ AttemptMove

Spec == Init /\ [][Next]_vars

(* The graph alone, built with every direction.                            *)

GraphCreateRoom ==
    /\ Running
    /\ calls < MaxGraphCalls
    /\ \E name \in RoomArgs, desc \in DescArgs : create_empty_room(name, desc)
    /\ UNCHANGED pipeline

GraphAddPath ==
    /\ Running
    /\ calls < MaxGraphCalls
    /\ \E s \in RoomArgs, t \in RoomArgs, d \in Direction : add_path(s, t, d)
    /\ UNCHANGED pipeline

NextGraph ==
    \/ GraphCreateRoom
    \/ GraphAddPath

SpecGraph == Init /\ [][NextGraph]_vars

(* Rooms and users, created with every name, description and user type.   *)

CastCreateRoom ==
    /\ Running
    /\ calls < MaxCastCalls
    /\ \E name \in RoomNameArgs, desc \in DescriptionArgs : create_empty_room(name, desc)
    /\ UNCHANGED pipeline

CastCreateUser ==
    /\ Running
    /\ calls < MaxCastCalls
    /\ \E u \in UserNameArgs, r \in RoomNameArgs, ut \in UserTypes :
          create_user_in_room(u, r, ut)
    /\ UNCHANGED pipeline

NextCast ==
    \/ CastCreateRoom
    \/ CastCreateUser

SpecCast == Init /\ [][NextCast]_vars

(* The pure functions of Path and Direction, applied to every input and    *)
(* again to what they returned.  A direction in an outcome is written as   *)
(* its pieces; the Option of get_reverse is the message list.              *)

Pieces(dir) == <<dir.tag, dir.start, dir.end>>
FromPieces(p) == Dir(p[1], p[2], p[3])

Normalized(input, kind) ==
    Outcome("match_basic_aliases", "ok", <<<<match_basic_aliases(input)>>>>,
            Args("", "", "", input, NoDir, kind))

Reversed(dir, kind) ==
    LET rev == get_reverse(dir) IN
    Outcome("get_reverse", "ok",
            IF rev = << >> THEN << >> ELSE <<Pieces(rev[1])>>,
            Args("", "", "", get_path_name(dir), dir, kind))

MatchBasicAliases ==
    /\ calls < MaxPureCalls
    /\ \E input \in AliasArgs : result' = Normalized(input, "")
    /\ calls' = calls + 1
    /\ UNCHANGED <<rooms, users, pipeline>>

MatchBasicAliasesAgain ==
    /\ calls < MaxPureCalls
    /\ result.op = "match_basic_aliases"
    /\ result' = Normalized(result.messages[1][1], "again")
    /\ calls' = calls + 1
    /\ UNCHANGED <<rooms, users, pipeline>>

GetReverse ==
    /\ calls < MaxPureCalls
    /\ \E dir \in Direction : result' = Reversed(dir, "")
    /\ calls' = calls + 1
    /\ UNCHANGED <<rooms, users, pipeline>>

GetReverseAgain ==
    /\ calls < MaxPureCalls
    /\ result.op = "get_reverse"
    /\ result.messages # << >>
    /\ result' = Reversed(FromPieces(result.messages[1]), "again")
    /\ calls' = calls + 1
    /\ UNCHANGED <<rooms, users, pipeline>>

NextPure ==
    \/ MatchBasicAliases
    \/ MatchBasicAliasesAgain
    \/ GetReverse
    \/ GetReverseAgain

SpecPure == Init /\ [][NextPure]_vars

(* Two rooms joined by painful edges, and one user walking them: a user    *)
(* fresh from User::new, or one that has walked until its hp is just above *)
(* I32Min.                                                                 *)

PainInputs == {"n", "north"}

PainRooms ==
    LET r1 == add_user(add_exit_special(Room_new("r1", "d1"), "r2", "north", "Painful"), "u1")
        r2 == add_exit_special(Room_new("r2", "d1"), "r1", "north", "Painful")
    IN  Insert(Insert(EmptyMap, "r1", r1), "r2", r2)

InitPain ==
    /\ rooms = PainRooms
    /\ \E user_type \in UserTypes :
          \E hp \in {BasicAttributes_default(user_type).hp, I32Min + 2} :
             users = Insert(EmptyMap, "u1",
                        [User_new("u1", "r1", user_type) EXCEPT !.basic_attributes.hp = hp])
    /\ result = Outcome("new", "ok", << >>, NoArgs)
    /\ calls = 0
    /\ pipeline = Idle

PainMove ==
    /\ Running
    /\ calls < MaxPainCalls
    /\ \E u \in DOMAIN users, input \in PainInputs : attempt_move_impl(u, input)
    /\ UNCHANGED pipeline

PainMoveOverflow ==
    /\ Running
    /\ calls < MaxPainCalls
    /\ \E u \in DOMAIN users, input \in PainInputs : attempt_move_overflow(u, input)
    /\ UNCHANGED pipeline

NextPain ==
    \/ PainMove
    \/ PainMoveOverflow

SpecPain == InitPain /\ [][NextPain]_vars

---------------------------------------------------------------------------
(* ActionSuccess and ActionFailure (lambda.rs)                             *)

(* ActionSuccess::new with the marker set from the start.                  *)
ActionSuccess_new_marked(messages) ==
    [kind |-> "success", messages |-> messages, room_move |-> TRUE]

ActionSuccess_new(messages) ==
    [kind |-> "success", messages |-> messages, room_move |-> FALSE]

set_was_room_move(success) == [success EXCEPT !.room_move = TRUE]

was_room_move(success) == success.room_move

ActionFailure(messages) == [kind |-> "failure", messages |-> messages]

---------------------------------------------------------------------------
(* The command loop of main and the stages of one command: Idle,           *)
(* Classifying, GlobalAction or MovementLookup, Guarding, Committing,      *)
(* Result.  The movement stages are the statements of attempt_move_impl in *)
(* their order; the classification, the global actions and the marking of  *)
(* the outcome are those of the design.                                    *)

GlobalActions == {"list_users"}

(* The orders in which a HashMap may hand out the keys in S.               *)
Orders(S) ==
    {q \in [1..Cardinality(S) -> S] : \A i, j \in 1..Cardinality(S) : q[i] = q[j] => i = j}

(* list_users: the names of the users, one message each.                   *)
list_users(order) == ActionSuccess_new([i \in DOMAIN order |-> <<order[i]>>])

(* The outcome of a committed move: the guard's messages, marked.          *)
MoveSuccess(messages) == set_was_room_move(ActionSuccess_new(messages))

(* A map of SpecRouter: r1 and r2, north from r1 with the exit condition   *)
(* of path_type, south from r2, u1 in r1 and u2 in r2; with named, r1 also *)
(* has an edge that bears the name of a global action.                     *)
RouterRooms(path_type, named) ==
    LET r1 == add_user(add_exit_special(Room_new("r1", "d1"), "r2", "north", path_type), "u1")
        r2 == add_user(add_exit(Room_new("r2", "d1"), "r1", "south"), "u2")
    IN  Insert(Insert(EmptyMap, "r2", r2), "r1",
               IF named THEN add_exit(r1, "r2", "list_users") ELSE r1)

RouterUsers ==
    Insert(Insert(EmptyMap, "u1", User_new("u1", "r1", "Civilian")),
           "u2", User_new("u2", "r2", "Viking"))

InitRouter ==
    /\ \E path_type \in {"Normal"} \cup PathTypes, named \in BOOLEAN :
          rooms = RouterRooms(path_type, named)
    /\ users = RouterUsers
    /\ result = Outcome("new", "ok", << >>, NoArgs)
    /\ calls = 0
    /\ pipeline = Idle

Stage(pc) == pipeline.pc = pc

(* main: a line is read and handed over; only then is the next one read.   *)
Accept ==
    /\ Stage("Idle")
    /\ calls < MaxRouterCalls
    /\ \E u \in DOMAIN users, input \in RouterInputs :
          pipeline' = [Idle EXCEPT !.pc = "Classifying", !.user = u, !.input = input]
    /\ calls' = calls + 1
    /\ UNCHANGED <<rooms, users, result>>

(* Classify handing every input to the movement lookup.                    *)
Classify_movement_only ==
    /\ Stage("Classifying")
    /\ pipeline' = [pipeline EXCEPT !.pc = "MovementLookup"]
    /\ UNCHANGED <<rooms, users, result, calls>>

Classify ==
    /\ Stage("Classifying")
    /\ pipeline' = [pipeline EXCEPT !.pc = IF pipeline.input \in GlobalActions
                                           THEN "GlobalAction"
                                           ELSE "MovementLookup"]
    /\ UNCHANGED <<rooms, users, result, calls>>

RunGlobalAction ==
    /\ Stage("GlobalAction")
    /\ \E order \in Orders(DOMAIN users) :
          pipeline' = [pipeline EXCEPT !.pc = "Result", !.outcome = list_users(order)]
    /\ UNCHANGED <<rooms, users, result, calls>>

(* MovementLookup giving up an empty name without a result.                *)
MovementLookup_drops_empty ==
    LET possible_path_name == match_basic_aliases(pipeline.input)
        room_name == users[pipeline.user].room_name
        found == lookup_exit(rooms[room_name], possible_path_name)
    IN
    /\ Stage("MovementLookup")
    /\ pipeline' =
          IF possible_path_name = ""
          THEN [pipeline EXCEPT !.pc = "Idle"]
          ELSE IF room_name \notin DOMAIN rooms
          THEN [pipeline EXCEPT !.pc = "Panic"]
          ELSE IF found = << >>
          THEN [pipeline EXCEPT !.pc = "Result", !.path_name = possible_path_name,
                    !.outcome = ActionFailure(<<NoDirection(possible_path_name, room_name)>>)]
          ELSE [pipeline EXCEPT !.path_name = possible_path_name,
                    !.pc = IF found[1].exit_cond = "None" THEN "Committing" ELSE "Guarding"]
    /\ UNCHANGED <<rooms, users, result, calls>>

(* Alias normalization, the empty name, the user's room, the exits lookup. *)
MovementLookup ==
    LET possible_path_name == match_basic_aliases(pipeline.input)
        room_name == users[pipeline.user].room_name
        found == lookup_exit(rooms[room_name], possible_path_name)
    IN
    /\ Stage("MovementLookup")
    /\ pipeline' =
          IF possible_path_name = ""
          THEN [pipeline EXCEPT !.pc = "Result", !.outcome = ActionFailure(<<<<"">>>>)]
          ELSE IF room_name \notin DOMAIN rooms
          THEN [pipeline EXCEPT !.pc = "Panic"]
          ELSE IF found = << >>
          THEN [pipeline EXCEPT !.pc = "Result", !.path_name = possible_path_name,
                    !.outcome = ActionFailure(<<NoDirection(possible_path_name, room_name)>>)]
          ELSE [pipeline EXCEPT !.path_name = possible_path_name,
                    !.pc = IF found[1].exit_cond = "None" THEN "Committing" ELSE "Guarding"]
    /\ UNCHANGED <<rooms, users, result, calls>>

(* The exit closure of the found path, called on the user; what it         *)
(* returned is the outcome so far.                                         *)
Guarding ==
    LET path == rooms[users[pipeline.user].room_name].exits[pipeline.path_name]
        cond == run_exit_cond(path, users[pipeline.user])
    IN
    /\ Stage("Guarding")
    /\ users' = [users EXCEPT ![pipeline.user] = cond.user]
    /\ pipeline' =
          IF cond.ok
          THEN [pipeline EXCEPT !.pc = "Committing", !.messages = cond.message,
                    !.outcome = ActionSuccess_new(cond.message)]
          ELSE [pipeline EXCEPT !.pc = "Result", !.outcome = ActionFailure(cond.message)]
    /\ UNCHANGED <<rooms, result, calls>>

(* Insert into the target room, set the user's room, take from the source  *)
(* room; the outcome is that of a room move.                               *)
Committing ==
    LET room_name == users[pipeline.user].room_name
        target_room_name == rooms[room_name].exits[pipeline.path_name].target_room_name
    IN
    /\ Stage("Committing")
    /\ IF target_room_name \notin DOMAIN rooms
       THEN /\ pipeline' = [pipeline EXCEPT !.pc = "Panic"]
            /\ UNCHANGED <<rooms, users>>
       ELSE /\ rooms' = commit_rooms(rooms, pipeline.user, room_name, target_room_name)
            /\ users' = [users EXCEPT ![pipeline.user] = commit_user(@, target_room_name)]
            /\ pipeline' = [pipeline EXCEPT !.pc = "Result",
                                !.outcome = MoveSuccess(pipeline.messages)]
    /\ UNCHANGED <<result, calls>>

(* The messages are printed and the loop goes back to reading.             *)
Render ==
    /\ Stage("Result")
    /\ pipeline' = [pipeline EXCEPT !.pc = "Idle"]
    /\ UNCHANGED <<rooms, users, result, calls>>

NextRouter ==
    \/ Accept
    \/ Classify
    \/ RunGlobalAction
    \/ MovementLookup
    \/ Guarding
    \/ Committing
    \/ Render

(* A command runs as one synchronous call: each stage that can run does.   *)
SpecRouter ==
    /\ InitRouter
    /\ [][NextRouter]_vars
    /\ WF_vars(Classify)
    /\ WF_vars(RunGlobalAction)
    /\ WF_vars(MovementLookup)
    /\ WF_vars(Guarding)
    /\ WF_vars(Committing)
    /\ WF_vars(Render)

---------------------------------------------------------------------------
(* What a step did, read from the outcome it left.                         *)

Moved == result'.op = "move" /\ result'.status = "ok"
Mover == result'.args.user
Occupants(rs, u) == {r \in DOMAIN rs : u \in rs[r].users}

---------------------------------------------------------------------------
(* C1: in every state, for every actor u and every room R, u's location is *)
(* R exactly when u is among R's occupants, and that is so for exactly one *)
(* room.                                                                   *)
C1_OccupancyAgreement ==
    Running =>
        \A u \in DOMAIN users :
            /\ \A r \in DOMAIN rooms : (users[u].room_name = r) <=> (u \in rooms[r].users)
            /\ Cardinality(Occupants(rooms, u)) = 1

(* C2: after a successful move of u along an edge to room T, u's location  *)
(* is T, u is among T's occupants and among no other room's.               *)
C2_CommitPostcondition ==
    [][Moved =>
        /\ users'[Mover].room_name = result'.args.target
        /\ Occupants(rooms', Mover) = {result'.args.target}]_vars

(* The room the mover stood in and the path it asked for, before the step. *)
Origin == users[Mover].room_name
Asked == result'.args.path
Taken == rooms[Origin].exits[Asked]
Attempted == result'.op = "move" /\ Mover \in DOMAIN users /\ Asked # ""
Found == Attempted /\ Asked \in DOMAIN rooms[Origin].exits
Denying == {"Deny", "HurtDeny"}
Allowing == {"None", "Painful", "Quiet"}

(* C3: a move whose normalized, non-empty path name is no key of the edge  *)
(* table of the actor's room fails with the "no direction" message and     *)
(* changes no location and no occupants.                                   *)
C3_UnknownPath ==
    [][(Attempted /\ Asked \notin DOMAIN rooms[Origin].exits) =>
        /\ result'.status = "err"
        /\ result'.messages = <<NoDirection(Asked, Origin)>>
        /\ rooms' = rooms
        /\ users' = users]_vars

(* A failed move along a name that another room has an edge for.           *)
C3_Witness ==
    /\ result.op = "move" /\ result.status = "err"
    /\ result.args.user \in DOMAIN users
    /\ result.messages = <<NoDirection(result.args.path, users[result.args.user].room_name)>>
    /\ \E r \in DOMAIN rooms :
          /\ r # users[result.args.user].room_name
          /\ result.args.path \in DOMAIN rooms[r].exits

(* C4: when the guard of the looked-up edge denies, the move fails with    *)
(* the guard's reason, and the actor's location and every room's occupants *)
(* are unchanged.                                                          *)
C4_GuardDeny ==
    [][(Found /\ Taken.exit_cond \in Denying) =>
        /\ result'.status = "err"
        /\ result'.messages = <<DenyMessage>>
        /\ users'[Mover].room_name = Origin
        /\ \A r \in DOMAIN rooms : rooms'[r].users = rooms[r].users
        /\ DOMAIN rooms' = DOMAIN rooms]_vars

(* A move that a guard denied, on an edge that leads to another room.      *)
C4_Witness ==
    /\ result.op = "move" /\ result.status = "err"
    /\ result.args.kind \in Denying
    /\ result.messages = <<DenyMessage>>
    /\ result.args.target # result.args.source
    /\ users[result.args.user].room_name = result.args.source

C6_NoRollback ==
    [][(Found /\ Taken.exit_cond = "HurtDeny") =>
        /\ result'.status = "err"
        /\ users'[Mover].basic_attributes.hp = users[Mover].basic_attributes.hp - 1
        /\ users'[Mover].room_name = Origin
        /\ \A r \in DOMAIN rooms : rooms'[r].users = rooms[r].users]_vars

(* A Civilian that a guard has hurt and then turned back.                  *)
C6_Witness ==
    /\ result.op = "move" /\ result.status = "err"
    /\ result.args.kind = "HurtDeny"
    /\ users[result.args.user].room_name = result.args.source
    /\ users[result.args.user].special_attributes.kind = "Civilian"
    /\ users[result.args.user].basic_attributes.hp = 19

---------------------------------------------------------------------------
(* The keys of the edge tables: (room, path name).                         *)
Edges(rs) == UNION {{<<r, n>> : n \in DOMAIN rs[r].exits} : r \in DOMAIN rs}

PathAdded == result'.op = "add_path" /\ result'.status = "ok"

(* C7: a successful add_path(A, B, d) with a two-way d creates exactly two *)
(* edges, A -> B named name(d) and B -> A named name(reverse(d)); with     *)
(* CustomOneWay it creates exactly the forward edge.                       *)
C7_GraphSymmetry ==
    [][PathAdded =>
        LET a == result'.args.source
            b == result'.args.target
            d == result'.args.dir
            rev == get_reverse(d)
            fwd == <<a, get_path_name(d)>>
            bwd == <<b, get_path_name(rev[1])>>
        IN  /\ rooms'[a].exits[fwd[2]].target_room_name = b
            /\ rooms'[a].exits[fwd[2]].path_name = fwd[2]
            /\ IF d.tag = "CustomOneWay"
               THEN Edges(rooms') \ Edges(rooms) = {fwd}
               ELSE /\ rooms'[b].exits[bwd[2]].target_room_name = a
                    /\ rooms'[b].exits[bwd[2]].path_name = bwd[2]
                    /\ Edges(rooms') \ Edges(rooms) = {fwd, bwd}
                    /\ fwd # bwd]_vars

EdgeOps == {"add_path", "add_exit_special", "room_add_path"}

(* C8: adding an edge under a path name its source room already has is     *)
(* rejected as fatal, by every edge-adding operation and by the reverse    *)
(* insert of add_path, and the original edge stays as it was.              *)
C8_DuplicateRejection ==
    [][(result'.op \in EdgeOps /\ result'.args.source \in DOMAIN rooms
                               /\ result'.args.target \in DOMAIN rooms) =>
        LET a == result'.args.source
            b == result'.args.target
            rev == get_reverse(result'.args.dir)
        IN  /\ result'.args.path \in DOMAIN rooms[a].exits => result'.status = "panic"
            /\ (result'.op = "add_path" /\ rev # << >>
                    /\ get_path_name(rev[1]) \in DOMAIN rooms[b].exits)
                  => result'.status = "panic"
            /\ \A e \in Edges(rooms) :
                  /\ e \in Edges(rooms')
                  /\ rooms'[e[1]].exits[e[2]] = rooms[e[1]].exits[e[2]]]_vars

(* C9: create_room with an id the room table already has fails fatally and *)
(* leaves the room as it was; a successful create_room inserts a room with *)
(* no edges and no occupants.                                              *)
C9_DuplicateRoom ==
    [][result'.op = "create_room" =>
        /\ result'.args.source \in DOMAIN rooms =>
              (result'.status = "panic" /\ rooms' = rooms)
        /\ result'.status = "ok" =>
              /\ rooms'[result'.args.source].exits = EmptyMap
              /\ rooms'[result'.args.source].users = {}]_vars

(* C10: create_user_in_room with a user id the actor table already has     *)
(* fails fatally and leaves the actor and every room's occupants as they   *)
(* were.                                                                   *)
C10_DuplicateUser ==
    [][(result'.op = "create_user" /\ result'.args.user \in DOMAIN users) =>
        /\ result'.status = "panic"
        /\ users' = users
        /\ \A r \in DOMAIN rooms : rooms'[r].users = rooms[r].users]_vars

(* C11: add_path fails fatally with "No room named X exists!" when the     *)
(* target room X does not exist, and with "Failed to find room named X for *)
(* mutation!" when the target exists and the source room X does not; in    *)
(* every state every edge of every room leads to an existing room.         *)
C11_NoDanglingEdges ==
    [][/\ (result'.op = "add_path" /\ result'.args.target \notin DOMAIN rooms) =>
            /\ result'.status = "panic"
            /\ result'.messages =
                  <<<<"No room named ", result'.args.target, " exists!">>>>
       /\ (result'.op = "add_path" /\ result'.args.target \in DOMAIN rooms
                /\ result'.args.source \notin DOMAIN rooms) =>
            /\ result'.status = "panic"
            /\ result'.messages =
                  <<<<"Failed to find room named ", result'.args.source, " for mutation!">>>>
       /\ \A e \in Edges(rooms') :
              rooms'[e[1]].exits[e[2]].target_room_name \in DOMAIN rooms']_vars

(* An add_path from a room that does not exist, in a map that has edges.   *)
C11_Witness ==
    /\ result.op = "add_path" /\ result.status = "panic"
    /\ result.args.source \notin DOMAIN rooms
    /\ result.args.target \in DOMAIN rooms
    /\ Edges(rooms) # {}

(* C12: create_user_in_room with a room that does not exist fails fatally, *)
(* and in every state, the state of that failure included, every actor of  *)
(* the actor table has an existing room as its location.                   *)
C12_ActorLocationValidity ==
    /\ (result.op = "create_user" /\ result.args.source \notin DOMAIN rooms) =>
            result.status = "panic"
    /\ \A u \in DOMAIN users : users[u].room_name \in DOMAIN rooms

(* C13: create_room with an empty id or an empty description, and          *)
(* create_user_in_room with an empty user id, each fail fatally with their *)
(* 'Empty ... are not allowed!' message and add no room and no actor.      *)
C13_EmptyIdentifiers ==
    [][/\ (result'.op = "create_room" /\ result'.args.source = "") =>
            /\ result'.status = "panic"
            /\ result'.messages = <<<<"Empty room names are not allowed!">>>>
            /\ rooms' = rooms /\ users' = users
       /\ (result'.op = "create_room" /\ result'.args.source # ""
                /\ result'.args.kind = "") =>
            /\ result'.status = "panic"
            /\ result'.messages = <<<<"Empty room descriptions are not allowed!">>>>
            /\ rooms' = rooms /\ users' = users
       /\ (result'.op = "create_user" /\ result'.args.user = "") =>
            /\ result'.status = "panic"
            /\ result'.messages = <<<<"Empty user names are not allowed!">>>>
            /\ rooms' = rooms /\ users' = users]_vars

(* A user with an empty name refused in a room that exists and has an      *)
(* occupant.                                                               *)
C13_Witness ==
    /\ result.op = "create_user" /\ result.status = "panic"
    /\ result.args.user = ""
    /\ result.args.source \in DOMAIN rooms
    /\ rooms[result.args.source].users # {}

(* C14: add_path between two existing rooms with CustomOneWay("") or with  *)
(* Custom(a, b) where a or b is empty fails fatally with 'Empty path names *)
(* are not allowed!'; in every state no edge table holds an edge whose     *)
(* path name is empty.                                                     *)
C14_EmptyPathNames ==
    [][/\ (/\ result'.op = "add_path"
            /\ result'.args.source \in DOMAIN rooms
            /\ result'.args.target \in DOMAIN rooms
            /\ result'.args.dir.tag \in {"CustomOneWay", "Custom"}
            /\ \/ result'.args.dir.start = ""
               \/ result'.args.dir.tag = "Custom" /\ result'.args.dir.end = "") =>
            /\ result'.status = "panic"
            /\ result'.messages = <<EmptyPathName>>
       /\ \A e \in Edges(rooms') :
              e[2] # "" /\ rooms'[e[1]].exits[e[2]].path_name # ""]_vars

(* Custom(a, "") refused on its way back, the edge a in place.             *)
C14_Witness ==
    /\ result.op = "add_path" /\ result.status = "panic"
    /\ result.messages = <<EmptyPathName>>
    /\ result.args.dir.tag = "Custom"
    /\ result.args.dir.start # "" /\ result.args.dir.end = ""
    /\ result.args.source # result.args.target
    /\ result.args.dir.start \in DOMAIN rooms[result.args.source].exits

(* C15: a move whose alias-normalized input is the empty string fails at   *)
(* once with an empty message, whoever the actor and whatever the edges    *)
(* and guards of its room, and leaves rooms and users as they were.        *)
C15_EmptyInput ==
    [][(result'.op = "move" /\ result'.args.path = "") =>
        /\ result'.status = "err"
        /\ result'.messages = <<<<"">>>>
        /\ result'.args.source = "" /\ result'.args.target = ""
        /\ rooms' = rooms
        /\ users' = users]_vars

(* An empty input from an actor whose room has a guarded edge.             *)
C15_Witness ==
    /\ result.op = "move" /\ result.status = "err"
    /\ result.args.path = ""
    /\ result.args.user \in DOMAIN users
    /\ \E n \in DOMAIN rooms[users[result.args.user].room_name].exits :
          rooms[users[result.args.user].room_name].exits[n].exit_cond = "HurtDeny"

(* C16: n, s, e, w, ne, se, nw, sw normalize to north, south, east, west,  *)
(* northeast, southeast, northwest, southwest; every other string, the     *)
(* eight words among them, normalizes to itself; and normalizing what a    *)
(* normalization returned returns it unchanged.                            *)
Aliases ==
    [a \in {"n", "s", "e", "w", "ne", "se", "nw", "sw"} |->
        CASE a = "n" -> "north" [] a = "s" -> "south"
          [] a = "e" -> "east" [] a = "w" -> "west"
          [] a = "ne" -> "northeast" [] a = "se" -> "southeast"
          [] a = "nw" -> "northwest" [] a = "sw" -> "southwest"]

C16_AliasNormalization ==
    [][result'.op = "match_basic_aliases" =>
        /\ result'.messages =
              <<<<IF result'.args.path \in DOMAIN Aliases
                  THEN Aliases[result'.args.path]
                  ELSE result'.args.path>>>>
        /\ (result.op = "match_basic_aliases"
                /\ result'.args.path = result.messages[1][1]) =>
              result'.messages = result.messages]_vars

(* An alias normalized, and its word normalized again.                     *)
C16_Witness ==
    /\ result.op = "match_basic_aliases"
    /\ result.args.kind = "again"
    /\ result.args.path = "southwest"
    /\ result.messages = <<<<"southwest">>>>
    /\ calls = 2

(* C17: each compass direction reverses to its opposite, CustomOneWay has  *)
(* no reverse, Custom(a, b) reverses to Custom(b, a), whose path name is   *)
(* b; the reverse of the reverse of a direction is that direction.         *)
Opposite ==
    [t \in {d.tag : d \in Compass} |->
        CASE t = "North" -> "South" [] t = "South" -> "North"
          [] t = "East" -> "West" [] t = "West" -> "East"
          [] t = "NorthEast" -> "SouthWest" [] t = "SouthWest" -> "NorthEast"
          [] t = "SouthEast" -> "NorthWest" [] t = "NorthWest" -> "SouthEast"]

C17_DirectionReverse ==
    [][result'.op = "get_reverse" =>
        /\ result'.args.dir \in Compass =>
              result'.messages = <<<<Opposite[result'.args.dir.tag], "", "">>>>
        /\ result'.args.dir.tag = "CustomOneWay" => result'.messages = << >>
        /\ result'.args.dir.tag = "Custom" =>
              /\ result'.messages =
                    <<<<"Custom", result'.args.dir.end, result'.args.dir.start>>>>
              /\ get_path_name(FromPieces(result'.messages[1])) = result'.args.dir.end
        /\ (result.op = "get_reverse" /\ result.messages # << >>
                /\ result'.args.dir = FromPieces(result.messages[1])) =>
              result'.messages = <<Pieces(result.args.dir)>>]_vars

(* Custom("in", "out") reversed, and its reverse reversed.                 *)
C17_Witness ==
    /\ result.op = "get_reverse"
    /\ result.args.kind = "again"
    /\ result.args.dir = Custom("out", "in")
    /\ result.messages = <<Pieces(Custom("in", "out"))>>
    /\ calls = 2

(* C18: with the two edges of add_path(R1, R2, d) in place, d two-way and  *)
(* unguarded, an actor that has moved from R1 along name(d) and then moves *)
(* along name(reverse(d)) is back in R1: its location is R1, it is among   *)
(* R1's occupants and not among R2's, and it is otherwise as it was.       *)
TwoWay == {d \in Direction : get_reverse(d) # << >>}

WentAlong(d) ==
    /\ result.op = "move" /\ result.status = "ok"
    /\ result.args.path = get_path_name(d)
    /\ result.args.source # result.args.target
    /\ rooms[result.args.source].exits[get_path_name(d)] =
          Path_new(result.args.target, get_path_name(d), "Normal")
    /\ get_path_name(get_reverse(d)[1]) \in DOMAIN rooms[result.args.target].exits
    /\ rooms[result.args.target].exits[get_path_name(get_reverse(d)[1])] =
          Path_new(result.args.source, get_path_name(get_reverse(d)[1]), "Normal")

C18_RoundTrip ==
    [][\A d \in TwoWay :
        (/\ WentAlong(d)
         /\ result'.op = "move"
         /\ result'.args.user = result.args.user
         /\ result'.args.path = get_path_name(get_reverse(d)[1])) =>
            /\ users[result.args.user].room_name = result.args.target
            /\ result'.status = "ok"
            /\ users'[result.args.user] =
                  [users[result.args.user] EXCEPT !.room_name = result.args.source]
            /\ result.args.user \in rooms'[result.args.source].users
            /\ result.args.user \notin rooms'[result.args.target].users
            /\ \A r \in DOMAIN rooms : rooms'[r].exits = rooms[r].exits]_vars

(* An actor back in r1 by the south edge of r2, with the north edge of r1  *)
(* leading to r2.                                                          *)
C18_Witness ==
    /\ result.op = "move" /\ result.status = "ok"
    /\ result.args.path = "south"
    /\ result.args.source = "r2" /\ result.args.target = "r1"
    /\ rooms["r1"].exits = [n \in {"north"} |-> Path_new("r2", "north", "Normal")]
    /\ rooms["r2"].exits = [n \in {"south"} |-> Path_new("r1", "south", "Normal")]
    /\ Occupants(rooms, result.args.user) = {"r1"}
    /\ users[result.args.user].room_name = "r1"

(* C19: within one move the guard of the edge runs at most once, only when *)
(* the name was found in the edge table of the actor's room, and before    *)
(* any change of location or occupants; it does not run when the input is  *)
(* empty or the name is not found.  A guard that takes a hit point counts  *)
(* its own runs in the actor's hp.                                         *)
Hurting == {"Painful", "HurtDeny"}
HpLost(u) == users[u].basic_attributes.hp - users'[u].basic_attributes.hp

C19_GuardInvocation ==
    [][result'.op = "move" =>
        /\ DOMAIN users' = DOMAIN users
        /\ \A u \in DOMAIN users :
              /\ HpLost(u) \in {0, 1}
              /\ HpLost(u) = 1 =>
                    (u = Mover /\ Found /\ Taken.exit_cond \in Hurting)
        /\ (Found /\ Taken.exit_cond = "HurtDeny") =>
              /\ HpLost(Mover) = 1
              /\ rooms' = rooms
              /\ users'[Mover].room_name = Origin
        /\ ~Found => users' = users]_vars

(* A Civilian turned back twice by a guard that hurts, one hit point each  *)
(* time.                                                                   *)
C19_Witness ==
    /\ result.op = "move" /\ result.status = "err"
    /\ result.args.kind = "HurtDeny"
    /\ result.args.path \in DOMAIN rooms[result.args.source].exits
    /\ users[result.args.user].room_name = result.args.source
    /\ users[result.args.user].special_attributes.kind = "Civilian"
    /\ users[result.args.user].basic_attributes.hp = 18

RoleDefaults ==
    [t \in UserTypes |->
        CASE t = "Civilian" -> [hp |-> 20, mp |-> 7]
          [] t = "Viking" -> [hp |-> 220, mp |-> 9]
          [] t = "ElfLord" -> [hp |-> 80, mp |-> 28]]

C23_CreateUser ==
    [][(result'.op = "create_user" /\ result'.status = "ok") =>
        /\ DOMAIN users' = DOMAIN users \cup {result'.args.user}
        /\ Cardinality(DOMAIN users') = Cardinality(DOMAIN users) + 1
        /\ \A v \in DOMAIN users : users'[v] = users[v]
        /\ users'[result'.args.user].basic_attributes = RoleDefaults[result'.args.kind]
        /\ users'[result'.args.user].room_name = result'.args.source
        /\ Occupants(rooms', result'.args.user) = {result'.args.source}]_vars

(* C24: in every state, for every room and every key k of its edge table,  *)
(* the edge stored under k has k as its path name.                         *)
C24_EdgeKeys ==
    \A e \in Edges(rooms) : rooms[e[1]].exits[e[2]].path_name = e[2]

(* Edges made by add_path and by a special exit, in one map.               *)
C24_Witness ==
    /\ \E e \in Edges(rooms) : rooms[e[1]].exits[e[2]].exit_cond = "Painful"
    /\ \E e \in Edges(rooms) : e[2] = "door"
    /\ \E e \in Edges(rooms) : e[2] = "south"

(* C25: every command that is accepted goes through Classifying, then      *)
(* GlobalAction or MovementLookup (then Guarding if the edge has a guard,  *)
(* then Committing), and in the end reaches Result; the next command is    *)
(* accepted only after that, and no command stays at a stage in between.   *)
StageOrder ==
    /\ pipeline'.pc = "Classifying" => Stage("Idle")
    /\ Stage("Idle") => pipeline'.pc = "Classifying"
    /\ Stage("Classifying") => pipeline'.pc \in {"GlobalAction", "MovementLookup"}
    /\ Stage("GlobalAction") => pipeline'.pc = "Result"
    /\ Stage("MovementLookup") => pipeline'.pc \in {"Guarding", "Committing", "Result"}
    /\ Stage("Guarding") => pipeline'.pc \in {"Committing", "Result"}
    /\ Stage("Committing") => pipeline'.pc = "Result"
    /\ Stage("Result") => pipeline'.pc = "Idle"

C25_RunToCompletion ==
    /\ [][StageOrder]_vars
    /\ \A pc \in {"Classifying", "GlobalAction", "MovementLookup", "Guarding", "Committing"} :
          Stage(pc) ~> Stage("Result")
    /\ Stage("Result") ~> Stage("Idle")

(* The second command at its result, a refusal by the guard of its edge.   *)
C25_Witness ==
    /\ Stage("Result")
    /\ calls = 2
    /\ pipeline.path_name = "north"
    /\ pipeline.outcome = ActionFailure(<<DenyMessage>>)

(* C26: a move of actor u, successful or not, changes neither the set of   *)
(* rooms, nor the set of actors, nor any room's edge table, nor another    *)
(* actor's location or attributes, nor another actor's membership in any   *)
(* room's occupants.                                                       *)
C26_MovementFrame ==
    [][result'.op = "move" =>
        /\ DOMAIN rooms' = DOMAIN rooms
        /\ DOMAIN users' = DOMAIN users
        /\ \A r \in DOMAIN rooms :
              /\ rooms'[r].exits = rooms[r].exits
              /\ rooms'[r].name = rooms[r].name
              /\ rooms'[r].description = rooms[r].description
              /\ rooms'[r].users \ {Mover} = rooms[r].users \ {Mover}
        /\ \A v \in DOMAIN users \ {Mover} : users'[v] = users[v]]_vars

(* A successful move out of a room in which another actor stays.           *)
C26_Witness ==
    /\ result.op = "move" /\ result.status = "ok"
    /\ result.args.source # result.args.target
    /\ \E v \in DOMAIN users :
          /\ v # result.args.user
          /\ users[v].room_name = result.args.source
          /\ v \in rooms[result.args.source].users

(* C27: a two-way add_path inserts the forward edge before it attempts the *)
(* reverse edge: when the reverse insert fails, because the reverse name   *)
(* is empty or because the target room already has an edge of that name,   *)
(* the call fails with the forward edge in the source room's edge table.   *)
ForwardName == get_path_name(result'.args.dir)
ReverseName == get_path_name(get_reverse(result'.args.dir)[1])

ReverseFails ==
    /\ result'.op = "add_path"
    /\ result'.args.source \in DOMAIN rooms
    /\ result'.args.target \in DOMAIN rooms
    /\ get_reverse(result'.args.dir) # << >>
    /\ ForwardName # ""
    /\ ForwardName \notin DOMAIN rooms[result'.args.source].exits
    /\ \/ ReverseName = ""
       \/ ReverseName \in DOMAIN rooms[result'.args.target].exits

C27_PartialTwoWay ==
    [][ReverseFails =>
        /\ result'.status = "panic"
        /\ ForwardName \in DOMAIN rooms'[result'.args.source].exits
        /\ rooms'[result'.args.source].exits[ForwardName].target_room_name =
              result'.args.target]_vars

(* C28: the painful guard never denies and hp has no lower bound: every    *)
(* traversal of a painful edge succeeds, whatever the hp, and takes        *)
(* exactly one hit point and no mp, so that a user fresh from User::new    *)
(* has its role's hp minus n after n traversals, below zero as well.       *)
C28_PainfulUnbounded ==
    [][(Found /\ Taken.exit_cond = "Painful") =>
        /\ result'.status = "ok"
        /\ users'[Mover].room_name = Taken.target_room_name
        /\ users'[Mover].basic_attributes.mp = users[Mover].basic_attributes.mp
        /\ users[Mover].basic_attributes.hp # I32Min
        /\ users'[Mover].basic_attributes.hp = users[Mover].basic_attributes.hp - 1
        /\ (/\ users[Mover].basic_attributes.hp < I32Max - MaxPainCalls
            /\ users[Mover].basic_attributes.hp + calls =
                 BasicAttributes_default(users[Mover].special_attributes.kind).hp)
              => users'[Mover].basic_attributes.hp + calls' =
                 BasicAttributes_default(users[Mover].special_attributes.kind).hp]_vars

=============================================================================
